---- MODULE Spec2Model ----
(***************************************************************************)
(* ProTranslate: file ingestion, streamed translation and export.          *)
(* Texts are sequences of one-character strings.  React state is the       *)
(* component state after the render that follows each handler; an async    *)
(* handler is one action per resumption (each await / timer callback).     *)
(***************************************************************************)
EXTENDS Integers, Sequences, FiniteSets, TLC

(* ------------------------------------------------------------------ *)
(* Bounds of the model                                                 *)
(* ------------------------------------------------------------------ *)
MaxOps    == 3   \* invocations of handleTranslate, handleFileChange and handleDownload
MaxChunks == 2   \* provider events (chunks) consumed, over all streams

(* ------------------------------------------------------------------ *)
(* Text helpers (String.prototype methods used by the code)            *)
(* ------------------------------------------------------------------ *)
IsWhitespace(c) == c \in {" ", "\n"}

\* !text.trim(): the text is empty once leading/trailing whitespace is removed
IsBlank(text) == \A i \in 1..Len(text) : IsWhitespace(text[i])

RECURSIVE Flatten(_)
Flatten(ss) == IF ss = <<>> THEN <<>> ELSE Head(ss) \o Flatten(Tail(ss))

Last(s) == s[Len(s)]

(* ------------------------------------------------------------------ *)
(* types.ts                                                            *)
(* ------------------------------------------------------------------ *)
Language == {"English", "Persian (Farsi)", "Auto Detect"}

LoadingState == {"idle", "reading", "translating", "success", "error"}

(* ------------------------------------------------------------------ *)
(* Progress values are rationals n/d (the code computes them in        *)
(* floating point): compared by cross multiplication.                  *)
(* ------------------------------------------------------------------ *)
Pct(n) == [n |-> n, d |-> 1]

PctLeq(p, q) == p.n * q.d <= q.n * p.d

PctEq(p, q) == p.n * q.d = q.n * p.d

\* Math.min(rawProgress, 95) with rawProgress = currentLength / (len * 1.2) * 100
CappedProgress(currentLength, inputLength) ==
    LET raw == [n |-> 250 * currentLength, d |-> 3 * inputLength]
    IN  IF PctLeq(raw, Pct(95)) THEN raw ELSE Pct(95)

(* ------------------------------------------------------------------ *)
(* Inputs                                                              *)
(* ------------------------------------------------------------------ *)
\* what the user can type into the source textarea
InputTexts == { <<>>, <<" ">>, <<"a">> }

\* chunk.text of one provider event (empty: a chunk without text)
ProviderChunks == { <<>>, <<"x">>, <<"y", "z">> }

(* ------------------------------------------------------------------ *)
(* constants.ts                                                        *)
(* ------------------------------------------------------------------ *)
SUPPORTED_EXTENSIONS == <<
    <<".", "t", "x", "t">>,
    <<".", "m", "d">>,
    <<".", "j", "s", "o", "n">>,
    <<".", "c", "s", "v">>,
    <<".", "x", "m", "l">>,
    <<".", "h", "t", "m", "l">>,
    <<".", "j", "s">>,
    <<".", "t", "s">>,
    <<".", "t", "s", "x">>,
    <<".", "j", "s", "x">>,
    <<".", "c", "s", "s">>,
    <<".", "s", "r", "t">>,
    <<".", "v", "t", "t">>,
    <<".", "p", "d", "f">> >>

\* faulty variant: the export list also offers the source-code formats
EXPORT_EXTENSIONS_WithScripts == <<
    <<".", "t", "x", "t">>,
    <<".", "m", "d">>,
    <<".", "j", "s", "o", "n">>,
    <<".", "h", "t", "m", "l">>,
    <<".", "c", "s", "v">>,
    <<".", "x", "m", "l">>,
    <<".", "j", "s">>,
    <<".", "t", "s">>,
    <<".", "s", "r", "t">>,
    <<".", "v", "t", "t">>,
    <<".", "p", "d", "f">>,
    <<".", "d", "o", "c", "x">> >>

EXPORT_EXTENSIONS == <<
    <<".", "t", "x", "t">>,
    <<".", "m", "d">>,
    <<".", "j", "s", "o", "n">>,
    <<".", "h", "t", "m", "l">>,
    <<".", "c", "s", "v">>,
    <<".", "x", "m", "l">>,
    <<".", "s", "r", "t">>,
    <<".", "v", "t", "t">>,
    <<".", "p", "d", "f">>,
    <<".", "d", "o", "c", "x">> >>

\* Array.prototype.includes
Includes(list, x) == \E i \in 1..Len(list) : list[i] = x

ExtTxt == <<".", "t", "x", "t">>

SuffixTranslated == <<"_", "t", "r", "a", "n", "s", "l", "a", "t", "e", "d">>

DefaultFileName == <<"t", "r", "a", "n", "s", "l", "a", "t", "i", "o", "n">>

(* ------------------------------------------------------------------ *)
(* More String.prototype helpers                                       *)
(* ------------------------------------------------------------------ *)
UpperCase == <<"A", "B", "C", "D", "E", "F", "G", "H", "I", "J", "K", "L", "M", "N", "O", "P", "Q", "R", "S", "T", "U", "V", "W", "X", "Y", "Z">>

LowerCase == <<"a", "b", "c", "d", "e", "f", "g", "h", "i", "j", "k", "l", "m", "n", "o", "p", "q", "r", "s", "t", "u", "v", "w", "x", "y", "z">>

ToLowerChar(c) ==
    IF \E i \in 1..26 : UpperCase[i] = c
    THEN LowerCase[CHOOSE i \in 1..26 : UpperCase[i] = c]
    ELSE c

ToLowerCase(s) == [i \in 1..Len(s) |-> ToLowerChar(s[i])]

\* 1-based position of the last occurrence of c in s, 0 when there is none
\* (String.prototype.lastIndexOf returns this minus one)
LastIndexOf(s, c) ==
    IF \E i \in 1..Len(s) : s[i] = c
    THEN CHOOSE i \in 1..Len(s) : s[i] = c /\ \A j \in (i+1)..Len(s) : s[j] # c
    ELSE 0

\* s.split('.').pop(): the part after the last '.', the whole of s without one
SplitPop(s) == SubSeq(s, LastIndexOf(s, ".") + 1, Len(s))

StartsWith(s, c) == Len(s) > 0 /\ s[1] = c

\* Math.round(part / total * 100), total > 0 (halves round up)
RoundPercent(part, total) == (200 * part + total) \div (2 * total)

(* ------------------------------------------------------------------ *)
(* utils/fileHelpers: parseFileName                                    *)
(* ------------------------------------------------------------------ *)
\* 1-based position of the first occurrence of c in s, 0 when there is none
IndexOf(s, c) ==
    IF \E i \in 1..Len(s) : s[i] = c
    THEN CHOOSE i \in 1..Len(s) : s[i] = c /\ \A j \in 1..(i-1) : s[j] # c
    ELSE 0

\* faulty variant: the name is cut at its first '.'
parseFileNameFirstDot(fileName) ==
    LET dotIndex == IndexOf(fileName, ".")
    IN  IF dotIndex = 0
        THEN [name |-> fileName, extension |-> ExtTxt]
        ELSE [name |-> SubSeq(fileName, 1, dotIndex - 1),
              extension |-> SubSeq(fileName, dotIndex, Len(fileName))]

parseFileName(fileName) ==
    LET lastDotIndex == LastIndexOf(fileName, ".")
    IN  IF lastDotIndex = 0
        THEN [name |-> fileName, extension |-> ExtTxt]
        ELSE [name |-> SubSeq(fileName, 1, lastDotIndex - 1),
              extension |-> SubSeq(fileName, lastDotIndex, Len(fileName))]

(* ------------------------------------------------------------------ *)
(* utils/fileHelpers: readPdfAsText / readFileAsText                   *)
(* A File is [name, text, pages, valid, badPage]: text is what          *)
(* FileReader.readAsText decodes; pages (each a sequence of item        *)
(* strings) is what pdf.js parses, valid whether getDocument succeeds, *)
(* badPage the page whose text extraction throws (0: none).            *)
(* ------------------------------------------------------------------ *)
\* textContent.items.map(item => item.str).join(' ')
RECURSIVE JoinSpace(_)
JoinSpace(items) ==
    IF items = <<>> THEN <<>>
    ELSE IF Len(items) = 1 THEN items[1]
    ELSE items[1] \o <<" ">> \o JoinSpace(Tail(items))

\* faulty variant: a single line break after each page
AppendPageSingleBreak(fullText, items) == fullText \o JoinSpace(items) \o <<"\n">>

\* fullText += pageText + '\n\n'
AppendPage(fullText, items) == fullText \o JoinSpace(items) \o <<"\n", "\n">>

\* extension === 'pdf'
IsPdf(file) == ToLowerCase(SplitPop(file.name)) = <<"p", "d", "f">>

\* the file input: accept={SUPPORTED_EXTENSIONS.join(',')}, matched against the
\* extension of the file name without regard to case
IsSupported(file) ==
    /\ LastIndexOf(file.name, ".") > 0
    /\ Includes(SUPPORTED_EXTENSIONS,
                ToLowerCase(SubSeq(file.name, LastIndexOf(file.name, "."), Len(file.name))))

\* reader.onload: if (event.target?.result) resolve(result) else reject(...)
OnLoadResolves(result) == result # <<>>


VARIABLES
    sourceLang, targetLang, inputText, outputText, status, saveStatus,
    progress, saveProgress, currentFile, inputMode, saveFileName, saveExtension,
    isReading, uploadProgress,
    streams,         \* running/finished invocations of handleTranslate
    uploads,         \* running/finished invocations of handleFileChange
    dl,              \* pending timers of handleDownload
    outputSrc,       \* history: for each fragment in outputText, its stream
    providerCalls,   \* history: calls of ai.models.generateContentStream
    translateCalls,  \* history: invocations of handleTranslate
    chunkEvents,     \* history: provider events consumed by the for-await loops
    exports,         \* history: invocations of downloadFile
    alerts           \* history: alert() messages shown

appVars == <<sourceLang, targetLang, inputText, outputText, status, saveStatus,
             progress, saveProgress, currentFile, inputMode, saveFileName,
             saveExtension>>

vars == <<sourceLang, targetLang, inputText, outputText, status, saveStatus,
          progress, saveProgress, currentFile, inputMode, saveFileName,
          saveExtension, isReading, uploadProgress, streams, uploads, dl,
          outputSrc, providerCalls, translateCalls, chunkEvents, exports, alerts>>


(* ------------------------------------------------------------------ *)
(* App: initial state (useState defaults)                              *)
(* ------------------------------------------------------------------ *)
\* currentFile === null
NoFile == [name |-> <<>>, content |-> <<>>, extension |-> <<>>]

\* no handleDownload timer is pending
NoDownload == [step |-> 0, content |-> <<>>, filename |-> <<>>, extension |-> <<>>]

Init ==
    /\ sourceLang = "Auto Detect"
    /\ targetLang = "Persian (Farsi)"
    /\ inputText = <<>>
    /\ outputText = <<>>
    /\ status = "idle"
    /\ saveStatus = "idle"
    /\ progress = Pct(0)
    /\ saveProgress = 0
    /\ currentFile = NoFile
    /\ inputMode = "manual"
    /\ saveFileName = <<>>
    /\ saveExtension = ExtTxt
    /\ isReading = FALSE
    /\ uploadProgress = 0
    /\ streams = <<>>
    /\ uploads = <<>>
    /\ dl = NoDownload
    /\ outputSrc = <<>>
    /\ providerCalls = 0
    /\ translateCalls = 0
    /\ chunkEvents = 0
    /\ exports = <<>>
    /\ alerts = <<>>

\* the handler invocations so far that start asynchronous work
OpsStarted ==
    translateCalls + Len(uploads) + Len(exports)
        + (IF dl.step \in {1, 2, 3, 4} THEN 1 ELSE 0)

uploaderVars == <<isReading, uploadProgress, uploads>>
downloadVars == <<saveStatus, saveProgress, dl, exports>>
fileVars == <<currentFile, saveFileName, saveExtension>>
langVars == <<sourceLang, targetLang>>

(* ------------------------------------------------------------------ *)
(* services/geminiService: translateTextStream                         *)
(* ------------------------------------------------------------------ *)
\* if (!text.trim()) return;  otherwise the provider is called once
StreamCallsProvider(text) == ~IsBlank(text)

\* if (chunk.text) yield chunk.text
Yields(chunk) == chunk # <<>>

(* ------------------------------------------------------------------ *)
(* App: handleTranslate                                                *)
(* A stream is one invocation that passed the guard:                   *)
(*   input          the inputText of the closure                      *)
(*   state          "open" (in the for-await), "done", "failed"       *)
(*   currentLength  the local variable of the invocation              *)
(*   delivered      history: the fragments yielded to it              *)
(*   reported       history: terminal statuses this invocation set    *)
(* When the invocation returns its closure is gone: input,             *)
(* currentLength and delivered are cleared.                            *)
(* ------------------------------------------------------------------ *)
\* the Translate button: disabled={status === 'translating' || !inputText}
TranslateEnabled == status # "translating" /\ inputText # <<>>

\* faulty variant: the guard tests the text without trimming it
TranslateReturnsEarlyNoTrim(text) == text = <<>>

\* if (!inputText.trim()) return;
TranslateReturnsEarly(text) == IsBlank(text)

NewStream(text) ==
    [input |-> text, state |-> "open", currentLength |-> 0,
     delivered |-> <<>>, reported |-> <<>>]

Returned(stream, state, report) ==
    [input |-> <<>>, state |-> state, currentLength |-> 0,
     delivered |-> <<>>, reported |-> Append(stream.reported, report)]

handleTranslate ==
    /\ TranslateEnabled
    /\ OpsStarted < MaxOps
    /\ translateCalls' = translateCalls + 1
    /\ IF TranslateReturnsEarly(inputText)
       THEN UNCHANGED <<status, outputText, progress, streams, outputSrc, providerCalls>>
       ELSE /\ status' = "translating"
            /\ outputText' = <<>>
            /\ progress' = Pct(0)
            /\ streams' = Append(streams, NewStream(inputText))
            /\ outputSrc' = <<>>
            /\ providerCalls' =
                 providerCalls + (IF StreamCallsProvider(inputText) THEN 1 ELSE 0)
    /\ UNCHANGED <<langVars, inputText, inputMode, fileVars, uploaderVars,
                   downloadVars, chunkEvents, alerts>>

\* setOutputText(prev => prev + chunk)
AppendChunk(prev, chunk) == prev \o chunk

\* One iteration of the for-await loop.  The updater passed to setOutputText
\* assigns currentLength when React runs it: at once (eager) or at the next
\* render, after setProgress has read the variable (not eager).
StreamChunk(s, chunk, eager) ==
    /\ streams[s].state = "open"
    /\ chunkEvents < MaxChunks
    /\ chunkEvents' = chunkEvents + 1
    /\ IF Yields(chunk)
       THEN LET newText == AppendChunk(outputText, chunk)
                seen == IF eager THEN Len(newText) ELSE streams[s].currentLength
            IN  /\ outputText' = newText
                /\ outputSrc' = Append(outputSrc, s)
                /\ progress' = CappedProgress(seen, Len(streams[s].input))
                /\ streams' = [streams EXCEPT
                                 ![s].currentLength = Len(newText),
                                 ![s].delivered = Append(@, chunk)]
       ELSE UNCHANGED <<outputText, outputSrc, progress, streams>>
    /\ UNCHANGED <<langVars, inputText, status, inputMode, fileVars, uploaderVars,
                   downloadVars, providerCalls, translateCalls, alerts>>

\* the stream is exhausted: setProgress(100); setStatus('success')
StreamEnd(s) ==
    /\ streams[s].state = "open"
    /\ progress' = Pct(100)
    /\ status' = "success"
    /\ streams' = [streams EXCEPT ![s] = Returned(@, "done", "success")]
    /\ UNCHANGED <<langVars, inputText, outputText, outputSrc, inputMode, fileVars,
                   uploaderVars, downloadVars, providerCalls, translateCalls,
                   chunkEvents, alerts>>

\* faulty variant: the catch block also clears the output
StreamThrowDiscards(s) ==
    /\ streams[s].state = "open"
    /\ status' = "error"
    /\ outputText' = <<>>
    /\ outputSrc' = <<>>
    /\ streams' = [streams EXCEPT ![s] = Returned(@, "failed", "error")]
    /\ UNCHANGED <<langVars, inputText, progress, inputMode,
                   fileVars, uploaderVars, downloadVars, providerCalls,
                   translateCalls, chunkEvents, alerts>>

\* faulty variant: the catch block calls the provider again instead of giving up
StreamThrowRetries(s) ==
    /\ streams[s].state = "open"
    /\ providerCalls' = providerCalls + 1
    /\ UNCHANGED <<langVars, inputText, outputText, outputSrc, status, progress,
                   inputMode, fileVars, uploaderVars, downloadVars, streams,
                   translateCalls, chunkEvents, alerts>>

\* the provider call or the iteration throws: catch { setStatus('error') }
StreamThrow(s) ==
    /\ streams[s].state = "open"
    /\ status' = "error"
    /\ streams' = [streams EXCEPT ![s] = Returned(@, "failed", "error")]
    /\ UNCHANGED <<langVars, inputText, outputText, outputSrc, progress, inputMode,
                   fileVars, uploaderVars, downloadVars, providerCalls,
                   translateCalls, chunkEvents, alerts>>

(* ------------------------------------------------------------------ *)
(* App: the other handlers of the translation panel                    *)
(* ------------------------------------------------------------------ *)
\* the Dismiss button of the error panel: setStatus('idle')
Dismiss ==
    /\ status = "error"
    /\ status' = "idle"
    /\ UNCHANGED <<langVars, inputText, outputText, outputSrc, progress, inputMode,
                   fileVars, uploaderVars, downloadVars, streams, providerCalls,
                   translateCalls, chunkEvents, alerts>>

\* the source textarea (rendered in manual mode): setInputText(e.target.value)
SetInputText(text) ==
    /\ inputMode = "manual"
    /\ text # inputText
    /\ inputText' = text
    /\ UNCHANGED <<langVars, outputText, outputSrc, status, progress, inputMode,
                   fileVars, uploaderVars, downloadVars, streams, providerCalls,
                   translateCalls, chunkEvents, alerts>>

\* the tabs: setInputMode(mode).  FileUploader is rendered in file mode only;
\* leaving file mode unmounts it, which drops its state and detaches the
\* reads it started from it (their setters no longer do anything).
SetInputMode(mode) ==
    /\ mode # inputMode
    /\ inputMode' = mode
    /\ isReading' = FALSE
    /\ uploadProgress' = 0
    /\ uploads' = [u \in DOMAIN uploads |-> [uploads[u] EXCEPT !.attached = FALSE]]
    /\ UNCHANGED <<langVars, inputText, outputText, outputSrc, status, progress,
                   fileVars, downloadVars, streams, providerCalls, translateCalls, chunkEvents,
                   alerts>>


(* ------------------------------------------------------------------ *)
(* Files the user can pick or drop                                     *)
(* ------------------------------------------------------------------ *)
MaxPages == 3        \* pages of the longest PDF offered

TextFile(name, text) ==
    [name |-> name, text |-> text, pages |-> <<>>, valid |-> FALSE, badPage |-> 0]

PdfFile(name, pages, valid, badPage) ==
    [name |-> name, text |-> <<>>, pages |-> pages, valid |-> valid,
     badPage |-> badPage]

\* page k of the longest PDF: k items "p"
PageItems(k) == [i \in 1..k |-> <<"p">>]

FileShort == TextFile(<<"s", ".", "t", "x", "t">>, <<"h">>)
FileTxt == TextFile(<<"a", ".", "t", "x", "t">>, <<"h", "i", "!">>)
FileEmptyMd == TextFile(<<"e", ".", "m", "d">>, <<>>)
FileExe == TextFile(<<"c", ".", "e", "x", "e">>, <<"m", "z">>)
FileNoDot == TextFile(<<"R", "E", "A", "D", "M", "E">>, <<"r">>)
FileUpperJson == TextFile(<<"d", ".", "v", "2", ".", "J", "S", "O", "N">>, <<"{", "}">>)
FileDotFirst == TextFile(<<".", "e", "n", "v">>, <<"k">>)
FileDotLast == TextFile(<<"n", ".">>, <<"z">>)
FileTs == TextFile(<<"t", ".", "t", "s">>, <<"x">>)
FilePdf == PdfFile(<<"b", ".", "P", "D", "F">>, << <<<<"p">>, <<"q">>>>, <<<<"r">>>> >>, TRUE, 0)
FilePdfLong == PdfFile(<<"l", ".", "p", "d", "f">>, [k \in 1..MaxPages |-> PageItems(k)], TRUE, 0)
FilePdfCorrupt == PdfFile(<<"x", ".", "p", "d", "f">>, <<>>, FALSE, 0)
FilePdfBadPage == PdfFile(<<"y", ".", "p", "d", "f">>, << <<<<"s">>>>, <<<<"t">>>> >>, TRUE, 2)

\* the files offered to the application as a whole
AppFiles == {FileShort}

\* the files offered when extraction is studied on its own
ExtractFiles == {FileTxt, FileEmptyMd, FileExe, FileNoDot, FileUpperJson,
                 FileDotFirst, FileDotLast, FileTs,
                 FilePdf, FilePdfLong, FilePdfCorrupt, FilePdfBadPage}

(* ------------------------------------------------------------------ *)
(* App: handleFileLoaded                                               *)
(* ------------------------------------------------------------------ *)
\* faulty variant: the extension is looked up as written, not in lower case
DefaultSaveExtensionKeepsCase(extension) ==
    IF Includes(EXPORT_EXTENSIONS, extension) THEN extension ELSE ExtTxt

\* isExportable ? ext : '.txt'
DefaultSaveExtension(extension) ==
    LET ext == ToLowerCase(extension)
    IN  IF Includes(EXPORT_EXTENSIONS, ext) THEN ext ELSE ExtTxt

\* the App state handleFileLoaded sets (the FileUploader it came from is
\* unmounted by setInputMode('manual'))
handleFileLoaded(fileData) ==
    /\ currentFile' = fileData
    /\ inputText' = fileData.content
    /\ saveFileName' = fileData.name \o SuffixTranslated
    /\ saveExtension' = DefaultSaveExtension(fileData.extension)
    /\ inputMode' = "manual"
    /\ status' = "idle"
    /\ outputText' = <<>>
    /\ outputSrc' = <<>>
    /\ progress' = Pct(0)

(* ------------------------------------------------------------------ *)
(* FileUploader: handleFileChange, with readFileAsText inlined.        *)
(* An upload is one invocation:                                        *)
(*   file      the File                                                *)
(*   phase     "opening" (PDF: awaiting getDocument), "reading",       *)
(*             "loaded" (text returned, 500 ms timer pending),         *)
(*             "done", "failed"                                        *)
(*   loaded    bytes reported so far / pages done                      *)
(*   content   the text read so far (fullText) / returned              *)
(*   attached  the FileUploader that started it is still mounted       *)
(*   error     "": none; the rejection otherwise                       *)
(*   turn      position of its 500 ms timer among the pending ones     *)
(*             (timers of equal delay fire in the order they were set) *)
(*   log       history: the values passed to onProgress                *)
(* When the invocation is over ("done", "failed") its closure is gone: *)
(* loaded, content and log are cleared.                                *)
(* ------------------------------------------------------------------ *)
NewUpload(file) ==
    [file |-> file, phase |-> IF IsPdf(file) THEN "opening" ELSE "reading",
     loaded |-> 0, content |-> <<>>, attached |-> TRUE, error |-> "", turn |-> 0,
     log |-> <<>>]

Finished(upload, phase, why) ==
    [file |-> upload.file, phase |-> phase, loaded |-> 0, content |-> <<>>,
     attached |-> FALSE, error |-> why, turn |-> 0, log |-> <<>>]

\* the 500 ms timers of handleFileChange that are pending
TimersPending == Cardinality({v \in DOMAIN uploads : uploads[v].phase = "loaded"})

\* onDrop / click guard: if (isLoading || isReading) return
UploadEnabled == inputMode = "file" /\ ~isReading /\ status # "translating"

handleFileChange(file) ==
    /\ UploadEnabled
    /\ OpsStarted < MaxOps
    /\ isReading' = TRUE
    /\ uploadProgress' = 0
    /\ uploads' = Append(uploads, NewUpload(file))
    /\ UNCHANGED <<appVars, downloadVars, streams, outputSrc, providerCalls,
                   translateCalls, chunkEvents, alerts>>

\* onProgress(percent): (percent) => setUploadProgress(percent)
OnProgress(u, percent) ==
    /\ uploadProgress' = IF uploads[u].attached THEN percent ELSE uploadProgress
    /\ UNCHANGED isReading

\* faulty variant: the catch block leaves the uploader in its reading state
UploadFailsStaysReading(u, why) ==
    /\ uploads' = [uploads EXCEPT ![u] = Finished(@, "failed", why)]
    /\ alerts' = Append(alerts, "Failed to read file")
    /\ UNCHANGED <<isReading, uploadProgress>>
    /\ UNCHANGED <<appVars, downloadVars, streams, outputSrc, providerCalls,
                   translateCalls, chunkEvents>>

\* catch (error) { alert(...); setIsReading(false); setUploadProgress(0) }
UploadFails(u, why) ==
    /\ uploads' = [uploads EXCEPT ![u] = Finished(@, "failed", why)]
    /\ alerts' = Append(alerts, "Failed to read file")
    /\ isReading' = IF uploads[u].attached THEN FALSE ELSE isReading
    /\ uploadProgress' = IF uploads[u].attached THEN 0 ELSE uploadProgress
    /\ UNCHANGED <<appVars, downloadVars, streams, outputSrc, providerCalls,
                   translateCalls, chunkEvents>>

\* reader.onprogress with lengthComputable: loaded grows up to total
ReaderProgress(u, loaded) ==
    /\ uploads[u].phase = "reading" /\ ~IsPdf(uploads[u].file)
    /\ loaded > uploads[u].loaded /\ loaded <= Len(uploads[u].file.text)
    /\ OnProgress(u, RoundPercent(loaded, Len(uploads[u].file.text)))
    /\ uploads' = [uploads EXCEPT
                     ![u].loaded = loaded,
                     ![u].log = Append(@, RoundPercent(loaded, Len(uploads[u].file.text)))]
    /\ UNCHANGED <<appVars, downloadVars, streams, outputSrc, providerCalls,
                   translateCalls, chunkEvents, alerts>>

\* reader.onload
ReaderLoad(u) ==
    /\ uploads[u].phase = "reading" /\ ~IsPdf(uploads[u].file)
    /\ IF OnLoadResolves(uploads[u].file.text)
       THEN /\ OnProgress(u, 100)
            /\ uploads' = [uploads EXCEPT
                             ![u].phase = "loaded",
                             ![u].content = uploads[u].file.text,
                             ![u].turn = TimersPending + 1,
                             ![u].log = Append(@, 100)]
            /\ UNCHANGED <<appVars, downloadVars, streams, outputSrc, providerCalls,
                           translateCalls, chunkEvents, alerts>>
       ELSE UploadFails(u, "Failed to read file")

\* reader.onerror
ReaderError(u) ==
    /\ uploads[u].phase = "reading" /\ ~IsPdf(uploads[u].file)
    /\ UploadFails(u, "reader error")

\* readPdfAsText: await loadingTask.promise
PdfOpen(u) ==
    /\ uploads[u].phase = "opening"
    /\ IF uploads[u].file.valid
       THEN /\ uploads' = [uploads EXCEPT ![u].phase = "reading"]
            /\ UNCHANGED <<appVars, downloadVars, isReading, uploadProgress, streams,
                           outputSrc, providerCalls, translateCalls, chunkEvents, alerts>>
       ELSE UploadFails(u, "Failed to parse PDF file")

\* readPdfAsText: one iteration of the page loop (the last one returns fullText)
PdfPage(u) ==
    /\ uploads[u].phase = "reading" /\ IsPdf(uploads[u].file)
    /\ LET i == uploads[u].loaded + 1
           totalPages == Len(uploads[u].file.pages)
       IN  IF uploads[u].file.badPage = i
           THEN UploadFails(u, "Failed to parse PDF file")
           ELSE /\ OnProgress(u, RoundPercent(i, totalPages))
                /\ uploads' = [uploads EXCEPT
                      ![u].loaded = i,
                      ![u].content = AppendPage(@, uploads[u].file.pages[i]),
                      ![u].log = Append(@, RoundPercent(i, totalPages)),
                      ![u].turn = IF i = totalPages THEN TimersPending + 1 ELSE 0,
                      ![u].phase = IF i = totalPages THEN "loaded" ELSE "reading"]
                /\ UNCHANGED <<appVars, downloadVars, streams, outputSrc,
                               providerCalls, translateCalls, chunkEvents, alerts>>

\* setTimeout(() => { onFileLoaded({name, content, extension}); ... }, 500)
FileLoadedTimer(u) ==
    /\ uploads[u].phase = "loaded" /\ uploads[u].turn = 1
    /\ LET parsed == parseFileName(uploads[u].file.name)
       IN  handleFileLoaded([name |-> parsed.name, content |-> uploads[u].content,
                             extension |-> parsed.extension])
    /\ isReading' = FALSE
    /\ uploadProgress' = 0
    /\ uploads' = [v \in DOMAIN uploads |->
                     IF v = u THEN Finished(uploads[v], "done", "")
                     ELSE [uploads[v] EXCEPT
                              !.attached = FALSE,
                              !.turn = IF @ > 0 THEN @ - 1 ELSE 0]]
    /\ UNCHANGED <<langVars, downloadVars, streams, providerCalls, translateCalls, chunkEvents,
                   alerts>>


(* ------------------------------------------------------------------ *)
(* utils/fileHelpers: downloadFile                                     *)
(* ------------------------------------------------------------------ *)
ExtPdf == <<".", "p", "d", "f">>
ExtDocx == <<".", "d", "o", "c", "x">>
ExtDoc == <<".", "d", "o", "c">>

\* faulty variant: the extension is not lower-cased
SafeExtensionKeepsCase(extension) ==
    IF StartsWith(extension, ".") THEN extension ELSE <<".">> \o extension

\* (extension.startsWith('.') ? extension : `.${extension}`).toLowerCase()
SafeExtension(extension) ==
    ToLowerCase(IF StartsWith(extension, ".") THEN extension ELSE <<".">> \o extension)

\* which of the three strategies downloadFile takes
Strategy(extension) ==
    LET safeExtension == SafeExtension(extension)
    IN  IF safeExtension = ExtPdf THEN "print"
        ELSE IF safeExtension = ExtDocx \/ safeExtension = ExtDoc THEN "word"
        ELSE "text"

\* what the host can do with a call of downloadFile: window.open returns null
\* (print strategy only), a browser primitive throws, or the artifact is handed over
HostOutcomes(extension) ==
    IF Strategy(extension) = "print" THEN {"ok", "blocked", "throws"}
    ELSE {"ok", "throws"}

\* A character outside ASCII is written by its code point ("U+0633" is the
\* Persian letter sin); charCode is its UTF-16 code unit.  Every other
\* character of the model is ASCII (code below 128).
charCode(c) ==
    CASE c = "U+0600" -> 1536
      [] c = "U+0633" -> 1587
      [] c = "U+06FF" -> 1791
      [] c = "U+0700" -> 1792
      [] c = "U+FEFF" -> 65279
      [] OTHER -> 127

\* the byte-order marker '\uFEFF' put in front of every Blob
BOM == "U+FEFF"

\* content.split('\n')
RECURSIVE Split(_)
Split(content) ==
    IF \E i \in 1..Len(content) : content[i] = "\n"
    THEN LET i == CHOOSE i \in 1..Len(content) :
                     content[i] = "\n" /\ \A j \in 1..(i-1) : content[j] # "\n"
         IN  <<SubSeq(content, 1, i - 1)>> \o Split(SubSeq(content, i + 1, Len(content)))
    ELSE <<content>>

\* faulty variant: only the first character of the content is tested
IsRtlFirstChar(content) ==
    content # <<>> /\ charCode(content[1]) \in 1536..1791

\* /[\u0600-\u06FF]/.test(content)
IsRtl(content) == \E i \in 1..Len(content) : charCode(content[i]) \in 1536..1791

\* one element of the markup downloadFile builds: <tag align dir>text</tag>
Element(tag, align, dir, text) == [tag |-> tag, align |-> align, dir |-> dir, text |-> text]

\* '<p>&nbsp;</p>', what the Word strategy writes for a blank line
WordBlank == Element("p", "", "", <<"&nbsp;">>)

\* faulty variant: blank lines are dropped instead of being kept as markers
WordParagraphsDropBlank(content) ==
    LET dir == IF IsRtl(content) THEN "rtl" ELSE "ltr"
        textAlign == IF IsRtl(content) THEN "right" ELSE "left"
        kept == SelectSeq(Split(content), LAMBDA line : ~IsBlank(line))
    IN  [i \in 1..Len(kept) |-> Element("p", textAlign, dir, kept[i])]

\* content.split('\n').map(line => !line.trim() ? '<p>&nbsp;</p>'
\*     : `<p align="${textAlign}" dir="${dir}" style="...">${line}</p>`)
WordParagraphs(content) ==
    LET dir == IF IsRtl(content) THEN "rtl" ELSE "ltr"
        textAlign == IF IsRtl(content) THEN "right" ELSE "left"
        lines == Split(content)
    IN  [i \in 1..Len(lines) |->
            IF IsBlank(lines[i]) THEN WordBlank
            ELSE Element("p", textAlign, dir, lines[i])]

\* faulty variant: a line is tested without being trimmed
PrintParagraphsNoTrim(content) ==
    LET lines == Split(content)
    IN  [i \in 1..Len(lines) |->
            IF lines[i] = <<>> THEN Element("br", "", "", <<>>)
            ELSE Element("p", "", "", lines[i])]

\* content.split('\n').map(line => line.trim() ? `<p>${line}</p>` : '<br>')
PrintParagraphs(content) ==
    LET lines == Split(content)
    IN  [i \in 1..Len(lines) |->
            IF IsBlank(lines[i]) THEN Element("br", "", "", <<>>)
            ELSE Element("p", "", "", lines[i])]

\* the MIME type of the text strategy
MimeType(safeExtension) ==
    IF safeExtension = <<".", "j", "s", "o", "n">> THEN "application/json"
    ELSE IF safeExtension = <<".", "h", "t", "m", "l">> THEN "text/html"
    ELSE IF safeExtension = <<".", "c", "s", "v">> THEN "text/csv"
    ELSE IF safeExtension = <<".", "x", "m", "l">> THEN "text/xml"
    ELSE IF safeExtension = <<".", "m", "d">> THEN "text/markdown"
    ELSE "text/plain"

\* faulty variant: the text strategy trims the content before writing it
TextPayloadTrimmed(content) ==
    <<BOM>> \o SelectSeq(content, LAMBDA c : ~IsWhitespace(c))

\* new Blob(['\uFEFF', content])
TextPayload(content) == <<BOM>> \o content

\* What downloadFile builds.  type, charset: the Blob type `${type};charset=...`
\* ("" for the print window and where the code gives no charset);
\* download: link.download; dir, align: of the page (print) or of the
\* paragraphs (Word); elements: the <body>; payload: the Blob parts that are
\* plain characters (the whole Blob for the text strategy, the marker in
\* front of the markup for Word).
Artifact(content, filename, extension) ==
    LET safeExtension == SafeExtension(extension)
        dir == IF IsRtl(content) THEN "rtl" ELSE "ltr"
        align == IF IsRtl(content) THEN "right" ELSE "left"
    IN  IF Strategy(extension) = "print"
        THEN [type |-> "", charset |-> "", download |-> <<>>, title |-> filename,
              dir |-> dir, align |-> align,
              elements |-> PrintParagraphs(content), payload |-> <<>>]
        ELSE IF Strategy(extension) = "word"
        THEN [type |-> "application/vnd.openxmlformats-officedocument.wordprocessingml.document",
              charset |-> "",
              download |-> filename \o safeExtension, title |-> <<>>,
              dir |-> dir, align |-> align,
              elements |-> WordParagraphs(content), payload |-> <<BOM>>]
        ELSE [type |-> MimeType(safeExtension), charset |-> "utf-8",
              download |-> filename \o safeExtension, title |-> <<>>,
              dir |-> "", align |-> "",
              elements |-> <<>>, payload |-> TextPayload(content)]

\* window.open returned null: downloadFile returns before building anything
NoArtifact ==
    [type |-> "", charset |-> "", download |-> <<>>, title |-> <<>>, dir |-> "",
     align |-> "",
     elements |-> <<>>, payload |-> <<>>]

\* the call downloadFile(content, filename, extension) as the host saw it
downloadFile(content, filename, extension, host) ==
    [content |-> content, filename |-> filename,
     extension |-> SafeExtension(extension), strategy |-> Strategy(extension),
     outcome |-> host,
     artifact |-> IF host = "blocked" THEN NoArtifact
                  ELSE Artifact(content, filename, extension)]

(* ------------------------------------------------------------------ *)
(* App: handleDownload                                                 *)
(* dl.step: 0 no download pending; 1..4 the timer of that step is      *)
(* pending; 5 the closing timer is pending.  content, filename and     *)
(* extension are the values the timer closures captured.               *)
(* ------------------------------------------------------------------ *)
SavePct == <<20, 50, 80, 100>>

\* the download controls are rendered when outputText is not empty;
\* the button: disabled={saveStatus === 'preparing'}
DownloadEnabled == outputText # <<>> /\ saveStatus # "preparing"

\* saveFileName || 'translation'
FileNameOrDefault(name) == IF name = <<>> THEN DefaultFileName ELSE name

\* the format select of the download controls: setSaveExtension(e.target.value)
SetSaveExtension(ext) ==
    /\ outputText # <<>>
    /\ ext # saveExtension
    /\ saveExtension' = ext
    /\ UNCHANGED <<langVars, inputText, outputText, outputSrc, status, progress,
                   inputMode, currentFile, saveFileName, uploaderVars, downloadVars,
                   streams, providerCalls, translateCalls, chunkEvents, alerts>>

\* faulty variant: the button is not disabled while a download is prepared
handleDownloadNotDisabled ==
    /\ outputText # <<>>
    /\ OpsStarted < MaxOps
    /\ saveStatus' = "preparing"
    /\ saveProgress' = 0
    /\ dl' = [step |-> 1, content |-> outputText,
              filename |-> FileNameOrDefault(saveFileName),
              extension |-> saveExtension]
    /\ UNCHANGED <<langVars, inputText, outputText, outputSrc, status, progress,
                   inputMode, fileVars, uploaderVars, streams, providerCalls,
                   translateCalls, chunkEvents, exports, alerts>>

\* if (!outputText) return; setSaveStatus('preparing'); setSaveProgress(0);
\* the four step timers are set
handleDownload ==
    /\ DownloadEnabled
    /\ OpsStarted < MaxOps
    /\ saveStatus' = "preparing"
    /\ saveProgress' = 0
    /\ dl' = [step |-> 1, content |-> outputText,
              filename |-> FileNameOrDefault(saveFileName),
              extension |-> saveExtension]
    /\ UNCHANGED <<langVars, inputText, outputText, outputSrc, status, progress,
                   inputMode, fileVars, uploaderVars, streams, providerCalls,
                   translateCalls, chunkEvents, exports, alerts>>

\* the timers of the first three steps: setSaveProgress(step.pct)
DownloadStep ==
    /\ dl.step \in 1..(Len(SavePct) - 1)
    /\ saveProgress' = SavePct[dl.step]
    /\ dl' = [dl EXCEPT !.step = @ + 1]
    /\ UNCHANGED <<langVars, inputText, outputText, outputSrc, status, progress,
                   inputMode, fileVars, uploaderVars, streams, providerCalls,
                   translateCalls, chunkEvents, saveStatus, exports, alerts>>

\* what the user is told about a call of downloadFile that ended as `host`
DownloadAlerts(host) ==
    IF host = "blocked" THEN <<"Please allow popups to save as PDF.">>
    ELSE IF host = "throws" THEN <<"Failed to save file.">>
    ELSE <<>>

\* faulty variant: the closing timer is set after the call instead of in a
\* finally block, so an exception skips it
DownloadFinalNoFinally(host) ==
    /\ dl.step = Len(SavePct)
    /\ host \in HostOutcomes(dl.extension)
    /\ saveProgress' = SavePct[dl.step]
    /\ exports' = Append(exports, downloadFile(dl.content, dl.filename, dl.extension, host))
    /\ alerts' = alerts \o DownloadAlerts(host)
    /\ dl' = IF host = "throws" THEN [dl EXCEPT !.step = Len(SavePct) + 2]
             ELSE [dl EXCEPT !.step = @ + 1]
    /\ UNCHANGED <<langVars, inputText, outputText, outputSrc, status, progress,
                   inputMode, fileVars, uploaderVars, streams, providerCalls,
                   translateCalls, chunkEvents, saveStatus>>

\* the timer of the last step: setSaveProgress(100); try { downloadFile(...) }
\* catch { alert } finally { setTimeout(close, 500) }
DownloadFinal(host) ==
    /\ dl.step = Len(SavePct)
    /\ host \in HostOutcomes(dl.extension)
    /\ saveProgress' = SavePct[dl.step]
    /\ exports' = Append(exports, downloadFile(dl.content, dl.filename, dl.extension, host))
    /\ alerts' = alerts \o DownloadAlerts(host)
    /\ dl' = [dl EXCEPT !.step = @ + 1]
    /\ UNCHANGED <<langVars, inputText, outputText, outputSrc, status, progress,
                   inputMode, fileVars, uploaderVars, streams, providerCalls,
                   translateCalls, chunkEvents, saveStatus>>

\* the closing timer: setSaveStatus('idle'); setSaveProgress(0)
DownloadClose ==
    /\ dl.step = Len(SavePct) + 1
    /\ saveStatus' = "idle"
    /\ saveProgress' = 0
    /\ dl' = NoDownload
    /\ UNCHANGED <<langVars, inputText, outputText, outputSrc, status, progress,
                   inputMode, fileVars, uploaderVars, streams, providerCalls,
                   translateCalls, chunkEvents, exports, alerts>>

(* ------------------------------------------------------------------ *)
(* App: the language controls                                          *)
(* ------------------------------------------------------------------ *)
\* the values of LANGUAGE_OPTIONS
LANGUAGE_OPTIONS == {"English", "Persian (Farsi)"}

\* the source select (Auto Detect and LANGUAGE_OPTIONS): setSourceLang(value)
SetSourceLang(lang) ==
    /\ lang \in {"Auto Detect"} \cup LANGUAGE_OPTIONS
    /\ lang # sourceLang
    /\ sourceLang' = lang
    /\ UNCHANGED <<targetLang, inputText, outputText, outputSrc, status, progress,
                   inputMode, fileVars, uploaderVars, downloadVars, streams,
                   providerCalls, translateCalls, chunkEvents, alerts>>

\* the target select (LANGUAGE_OPTIONS only): setTargetLang(value)
SetTargetLang(lang) ==
    /\ lang \in LANGUAGE_OPTIONS
    /\ lang # targetLang
    /\ targetLang' = lang
    /\ UNCHANGED <<sourceLang, inputText, outputText, outputSrc, status, progress,
                   inputMode, fileVars, uploaderVars, downloadVars, streams,
                   providerCalls, translateCalls, chunkEvents, alerts>>

\* faulty variant: the two languages are exchanged whatever the source is
swapLanguagesAlwaysExchanges ==
    /\ sourceLang' = targetLang
    /\ targetLang' = sourceLang
    /\ <<sourceLang', targetLang'>> # <<sourceLang, targetLang>>
    /\ UNCHANGED <<inputText, outputText, outputSrc, status, progress,
                   inputMode, fileVars, uploaderVars, downloadVars, streams,
                   providerCalls, translateCalls, chunkEvents, alerts>>

\* the swap button
swapLanguages ==
    /\ IF sourceLang = "Auto Detect"
       THEN sourceLang' = targetLang /\ targetLang' = "English"
       ELSE sourceLang' = targetLang /\ targetLang' = sourceLang
    /\ <<sourceLang', targetLang'>> # <<sourceLang, targetLang>>
    /\ UNCHANGED <<inputText, outputText, outputSrc, status, progress,
                   inputMode, fileVars, uploaderVars, downloadVars, streams,
                   providerCalls, translateCalls, chunkEvents, alerts>>

(* ------------------------------------------------------------------ *)
(* Specifications                                                      *)
(* ------------------------------------------------------------------ *)
Translating ==
    \/ handleTranslate
    \/ \E s \in DOMAIN streams, chunk \in ProviderChunks, eager \in BOOLEAN :
          StreamChunk(s, chunk, eager)
    \/ \E s \in DOMAIN streams : StreamEnd(s)
    \/ \E s \in DOMAIN streams : StreamThrow(s)
    \/ Dismiss
    \/ \E text \in InputTexts : SetInputText(text)

\* translation, with files loaded from the upload tab
Next ==
    \/ Translating
    \/ \E mode \in {"manual", "file"} : SetInputMode(mode)
    \/ \E file \in AppFiles : handleFileChange(file)
    \/ \E u \in DOMAIN uploads, loaded \in 1..1 : ReaderProgress(u, loaded)
    \/ \E u \in DOMAIN uploads : ReaderLoad(u)
    \/ \E u \in DOMAIN uploads : ReaderError(u)
    \/ \E u \in DOMAIN uploads : FileLoadedTimer(u)

Spec == Init /\ [][Next]_vars

\* the same, with every provider stream eventually completing or failing
SpecFair ==
    /\ Spec
    /\ WF_vars(\E s \in DOMAIN streams : StreamEnd(s) \/ StreamThrow(s))

\* translation, with the language controls
NextLang ==
    \/ Translating
    \/ \E lang \in Language : SetSourceLang(lang)
    \/ \E lang \in LANGUAGE_OPTIONS : SetTargetLang(lang)
    \/ swapLanguages

SpecLang == Init /\ [][NextLang]_vars

\* translation, with the download controls
NextDownload ==
    \/ Translating
    \/ handleDownload
    \/ DownloadStep
    \/ \E host \in {"ok", "blocked", "throws"} : DownloadFinal(host)
    \/ DownloadClose

SpecDownload == Init /\ [][NextDownload]_vars

\* The download controls on their own: a translation has completed (the
\* state StreamEnd leaves; the history variables start empty) and the user
\* picks formats and downloads.  The browser fires every pending timer.
SaveChoices == {ExtTxt, ExtPdf, ExtDocx}

InitSave ==
    /\ sourceLang = "Auto Detect"
    /\ targetLang = "Persian (Farsi)"
    /\ inputText = <<"a">>
    /\ outputText = <<"x">>
    /\ status = "success"
    /\ saveStatus = "idle"
    /\ progress = Pct(100)
    /\ saveProgress = 0
    /\ currentFile = NoFile
    /\ inputMode = "manual"
    /\ saveFileName = <<>>
    /\ saveExtension = ExtTxt
    /\ isReading = FALSE
    /\ uploadProgress = 0
    /\ streams = <<>>
    /\ uploads = <<>>
    /\ dl = NoDownload
    /\ outputSrc = <<>>
    /\ providerCalls = 0
    /\ translateCalls = 0
    /\ chunkEvents = 0
    /\ exports = <<>>
    /\ alerts = <<>>

NextSave ==
    \/ \E ext \in SaveChoices : SetSaveExtension(ext)
    \/ handleDownload
    \/ DownloadStep
    \/ \E host \in {"ok", "blocked", "throws"} : DownloadFinal(host)
    \/ DownloadClose

SpecSave ==
    /\ InitSave /\ [][NextSave]_vars
    /\ WF_vars(DownloadStep)
    /\ WF_vars(\E host \in {"ok", "blocked", "throws"} : DownloadFinal(host))
    /\ WF_vars(DownloadClose)

\* extraction on its own: the upload tab is open and one file of any kind has
\* just been picked or dropped (the state handleFileChange leaves)
InitExtract ==
    /\ sourceLang = "Auto Detect"
    /\ targetLang = "Persian (Farsi)"
    /\ inputText = <<>>
    /\ outputText = <<>>
    /\ status = "idle"
    /\ saveStatus = "idle"
    /\ progress = Pct(0)
    /\ saveProgress = 0
    /\ currentFile = NoFile
    /\ inputMode = "file"
    /\ saveFileName = <<>>
    /\ saveExtension = ExtTxt
    /\ isReading = TRUE
    /\ uploadProgress = 0
    /\ streams = <<>>
    /\ \E file \in ExtractFiles : uploads = <<NewUpload(file)>>
    /\ dl = NoDownload
    /\ outputSrc = <<>>
    /\ providerCalls = 0
    /\ translateCalls = 0
    /\ chunkEvents = 0
    /\ exports = <<>>
    /\ alerts = <<>>

NextExtract ==
    \/ \E mode \in {"manual", "file"} : SetInputMode(mode)
    \/ \E u \in DOMAIN uploads, loaded \in 1..3 : ReaderProgress(u, loaded)
    \/ \E u \in DOMAIN uploads : ReaderLoad(u)
    \/ \E u \in DOMAIN uploads : ReaderError(u)
    \/ \E u \in DOMAIN uploads : PdfOpen(u)
    \/ \E u \in DOMAIN uploads : PdfPage(u)
    \/ \E u \in DOMAIN uploads : FileLoadedTimer(u)

SpecExtract == InitExtract /\ [][NextExtract]_vars

\* Export on its own.  downloadFile is an exported helper: its content and
\* extension arguments are arbitrary strings, so the state is the one
\* handleDownload leaves (first timer pending) with any content and extension;
\* the history variables start empty.
MaxLen == 4          \* length of the longest content exported

ExportAlphabet == {"a", " ", "\n", "U+0633"}

ExportContents == UNION {[1..n -> ExportAlphabet] : n \in 1..MaxLen}

ExportExtensions == {
    <<".", "p", "d", "f">>, <<"P", "D", "F">>,
    <<".", "d", "o", "c", "x">>, <<".", "D", "o", "c">>, <<"d", "o", "c", "x">>,
    <<".", "t", "x", "t">>, <<".", "j", "s", "o", "n">>, <<"J", "S", "O", "N">>,
    <<".", "h", "t", "m", "l">>, <<".", "c", "s", "v">>, <<".", "x", "m", "l">>,
    <<".", "m", "d">>, <<".", "s", "r", "t">>, <<".", "e", "x", "e">>,
    <<".", ".", "p", "d", "f">>, <<".">>, <<>> }

InitExport ==
    /\ sourceLang = "Auto Detect"
    /\ targetLang = "Persian (Farsi)"
    /\ inputText = <<"a">>
    /\ outputText \in ExportContents
    /\ status = "success"
    /\ saveStatus = "preparing"
    /\ progress = Pct(100)
    /\ saveProgress = 0
    /\ currentFile = NoFile
    /\ inputMode = "manual"
    /\ saveFileName \in {<<>>, <<"f">>}
    /\ saveExtension \in ExportExtensions
    /\ isReading = FALSE
    /\ uploadProgress = 0
    /\ streams = <<>>
    /\ uploads = <<>>
    /\ dl = [step |-> 1, content |-> outputText,
             filename |-> FileNameOrDefault(saveFileName),
             extension |-> saveExtension]
    /\ outputSrc = <<>>
    /\ providerCalls = 0
    /\ translateCalls = 0
    /\ chunkEvents = 0
    /\ exports = <<>>
    /\ alerts = <<>>

NextExport ==
    \/ DownloadStep
    \/ \E host \in {"ok", "blocked", "throws"} : DownloadFinal(host)
    \/ DownloadClose

SpecExport == InitExport /\ [][NextExport]_vars

\* the files offered when uploads are studied on their own
UploadFiles == {FileShort, FileTxt}

\* the upload tab on its own: files are picked while earlier reads are still
\* running (the tabs unmount and remount the FileUploader)
NextUpload ==
    \/ \E mode \in {"manual", "file"} : SetInputMode(mode)
    \/ \E file \in UploadFiles : handleFileChange(file)
    \/ \E u \in DOMAIN uploads, loaded \in 1..3 : ReaderProgress(u, loaded)
    \/ \E u \in DOMAIN uploads : ReaderLoad(u)
    \/ \E u \in DOMAIN uploads : ReaderError(u)
    \/ \E u \in DOMAIN uploads : FileLoadedTimer(u)

SpecUpload == Init /\ [][NextUpload]_vars

(* ------------------------------------------------------------------ *)
(* Properties                                                          *)
(* ------------------------------------------------------------------ *)
\* some invocation of handleTranslate is still consuming its stream
InFlight == \E s \in DOMAIN streams : streams[s].state = "open"

\* the step delivers a fragment to stream s
Delivers(s) ==
    /\ streams[s].state = "open" /\ streams'[s].state = "open"
    /\ streams'[s].delivered # streams[s].delivered

\* the step makes stream s fail
Fails(s) == streams[s].state = "open" /\ streams'[s].state = "failed"

\* C1: once a newer translate action has started, the output text holds only
\* fragments of the newest translation: no fragment of an earlier stream that
\* is still running is appended to it.
C1_OnlyNewestFragments ==
    Len(streams) >= 2 =>
        \A i \in DOMAIN outputSrc : outputSrc[i] = Len(streams)

\* C2: while a translation is in flight (and no new one is started) the length
\* of the output text never shrinks, progress never decreases and progress
\* stays at or below 95; progress becomes 100 only in a step that ends a stream.
C2_ProgressMonotone ==
    [][ /\ (InFlight /\ InFlight' /\ Len(streams') = Len(streams)) =>
            /\ Len(outputText') >= Len(outputText)
            /\ PctLeq(progress, progress')
            /\ PctLeq(progress', Pct(95))
        /\ (PctEq(progress', Pct(100)) /\ ~PctEq(progress, Pct(100))) =>
            \E s \in DOMAIN streams :
                streams[s].state = "open" /\ streams'[s].state = "done"
      ]_vars

\* C3: a step in which a stream fails leaves the output text and progress as
\* they were and sets the status to 'error'; the failed invocation has set
\* 'error' once and nothing else, and does nothing afterwards.
C3_ErrorKeepsText ==
    [][ \A s \in DOMAIN streams :
          /\ Fails(s) =>
                /\ outputText' = outputText
                /\ progress' = progress
                /\ status' = "error"
                /\ streams'[s].reported = <<"error">>
          /\ streams[s].state = "failed" =>
                /\ streams'[s] = streams[s]
                /\ streams[s].reported = <<"error">>
      ]_vars

\* C3 witness: a stream has failed after delivering fragments that are still shown
C3_Witness ==
    /\ status = "error"
    /\ outputText # <<>>
    /\ \E s \in DOMAIN streams : streams[s].state = "failed"

\* C4: an invocation of handleTranslate on blank (empty or whitespace-only)
\* text changes nothing: no stream is started, the provider is not called, no
\* error is reported, and status, output text and progress keep their values.
C4_BlankIsNoOp ==
    [][ (translateCalls' # translateCalls /\ IsBlank(inputText)) =>
            /\ status' = status
            /\ outputText' = outputText
            /\ progress' = progress
            /\ streams' = streams
            /\ providerCalls' = providerCalls
            /\ alerts' = alerts
      ]_vars

\* C4 witness: handleTranslate has run on whitespace-only text
C4_Witness ==
    /\ translateCalls >= 1
    /\ streams = <<>>
    /\ inputText = <<" ">>

\* C5: when the k-th fragment of a translation has been applied, the output
\* text is the concatenation of its fragments 1..k in arrival order.
C5_OutputIsConcatenation ==
    [][ \A s \in DOMAIN streams :
          Delivers(s) => outputText' = Flatten(streams'[s].delivered)
      ]_vars

\* C6: the provider is called only by a step of handleTranslate, once per
\* step: no step of a stream (its failure included) calls it again, and there
\* are never more provider calls than translate actions.
C6_NoAutomaticRetry ==
    [][ /\ providerCalls' # providerCalls =>
              /\ providerCalls' = providerCalls + 1
              /\ translateCalls' = translateCalls + 1
        /\ providerCalls' <= translateCalls'
        /\ providerCalls' = Len(streams')
      ]_vars

\* C6 witness: a translation has ended in error after its single provider call
C6_Witness ==
    /\ providerCalls = 1
    /\ translateCalls = 1
    /\ Len(streams) = 1 /\ streams[1].state = "failed"

\* C7: whenever downloadFile is invoked, the content it receives is the output
\* text at that moment and no translation stream is still open.
C7_ExportsFinalText ==
    [][ Len(exports') > Len(exports) =>
            /\ Last(exports').content = outputText'
            /\ ~InFlight'
      ]_vars

NonDecreasing(seq) == \A i \in 1..(Len(seq) - 1) : seq[i] <= seq[i + 1]

\* r is part/total*100 rounded to the nearest integer (halves up)
IsRounded(r, part, total) ==
    /\ 2 * total * r <= 200 * part + total
    /\ 2 * total * r > 200 * part - total

\* the items of a page, a single space between consecutive ones
RECURSIVE SpaceJoined(_)
SpaceJoined(items) ==
    IF Len(items) = 0 THEN <<>>
    ELSE IF Len(items) = 1 THEN items[1]
    ELSE SpaceJoined(SubSeq(items, 1, Len(items) - 1)) \o <<" ">> \o items[Len(items)]

\* the page texts in order, a double line break between consecutive pages
RECURSIVE PagesSeparated(_)
PagesSeparated(pages) ==
    IF Len(pages) = 0 THEN <<>>
    ELSE IF Len(pages) = 1 THEN SpaceJoined(pages[1])
    ELSE PagesSeparated(SubSeq(pages, 1, Len(pages) - 1))
            \o <<"\n", "\n">> \o SpaceJoined(pages[Len(pages)])

\* the page texts in order, a double line break after every page
RECURSIVE PagesTerminated(_)
PagesTerminated(pages) ==
    IF Len(pages) = 0 THEN <<>>
    ELSE PagesTerminated(SubSeq(pages, 1, Len(pages) - 1))
            \o SpaceJoined(pages[Len(pages)]) \o <<"\n", "\n">>

\* the progress values of a PDF after `done` of its pages
PdfProgressOk(upload) ==
    /\ Len(upload.log) = upload.loaded
    /\ \A i \in 1..Len(upload.log) :
          IsRounded(upload.log[i], i, Len(upload.file.pages))

\* C8: reading a supported plain-format file (an empty one included) reports
\* non-decreasing progress values, the last of them 100, and returns the
\* decoded text: a read that completes never fails.
C8_PlainReadReports100 ==
    \A u \in DOMAIN uploads :
        (IsSupported(uploads[u].file) /\ ~IsPdf(uploads[u].file)) =>
            /\ NonDecreasing(uploads[u].log)
            /\ uploads[u].phase = "failed" => uploads[u].error = "reader error"
            /\ uploads[u].phase = "loaded" =>
                  /\ uploads[u].log # <<>>
                  /\ Last(uploads[u].log) = 100
                  /\ uploads[u].content = uploads[u].file.text

\* C9 (as stated): a PDF with N pages yields N progress updates, the i-th
\* round(i/N*100), and the returned text is the page texts in page order with
\* a double line break between consecutive pages.
C9_PagesSeparatedByBreaks ==
    \A u \in DOMAIN uploads :
        (IsPdf(uploads[u].file) /\ uploads[u].phase = "loaded") =>
            /\ uploads[u].loaded = Len(uploads[u].file.pages)
            /\ PdfProgressOk(uploads[u])
            /\ uploads[u].content = PagesSeparated(uploads[u].file.pages)

\* C9 (amended): after i pages of a PDF with N pages there have been i progress
\* updates, the j-th round(j/N*100), and the text read is pages 1..i in page
\* order, the items of a page joined by single spaces and every page (the last
\* one too) followed by a double line break; the text is returned after page N.
C9_PagesEachFollowedByBreak ==
    \A u \in DOMAIN uploads :
        (IsPdf(uploads[u].file) /\ uploads[u].phase \in {"reading", "loaded"}) =>
            /\ PdfProgressOk(uploads[u])
            /\ uploads[u].content =
                  PagesTerminated(SubSeq(uploads[u].file.pages, 1, uploads[u].loaded))
            /\ uploads[u].phase = "loaded" <=>
                  uploads[u].loaded = Len(uploads[u].file.pages)

\* C9 witness: a PDF of several pages, one of them with several items, has
\* been read to the end
C9_Witness ==
    \E u \in DOMAIN uploads :
        /\ IsPdf(uploads[u].file) /\ uploads[u].phase = "loaded"
        /\ Len(uploads[u].file.pages) >= 2
        /\ \E k \in DOMAIN uploads[u].file.pages : Len(uploads[u].file.pages[k]) >= 2
        /\ Len(uploads[u].log) = Len(uploads[u].file.pages)

\* C10: a file whose name declares an extension that is not in
\* SUPPORTED_EXTENSIONS never yields text: its read does not return and
\* handleFileLoaded is not called for it.
C10_UnsupportedRejected ==
    \A u \in DOMAIN uploads :
        (LastIndexOf(uploads[u].file.name, ".") > 0 /\ ~IsSupported(uploads[u].file)) =>
            uploads[u].phase \notin {"loaded", "done"}

(* ------------------------------------------------------------------ *)
(* Failed and superseded uploads                                       *)
(* ------------------------------------------------------------------ *)
\* the step in which upload u fails
FailsNow(u) == uploads[u].phase # "failed" /\ uploads'[u].phase = "failed"

\* C11: when an extraction fails, the failing step leaves the input text, the
\* current file, the session status, the output text and the progress (and the
\* rest of the App state) as they were and starts no translation, reports the
\* failure with exactly one alert and puts the uploader that started it back
\* in its not-reading state; a failed upload stays failed, so the file-loaded
\* callback is never invoked for it.
C11_FailedExtractionChangesNothing ==
    [][\A u \in DOMAIN uploads :
          /\ FailsNow(u) =>
                /\ <<inputText, currentFile, status, outputText, progress>>' =
                       <<inputText, currentFile, status, outputText, progress>>
                /\ appVars' = appVars
                /\ translateCalls' = translateCalls /\ providerCalls' = providerCalls
                /\ streams' = streams
                /\ Len(alerts') = Len(alerts) + 1
                /\ uploads[u].attached => (~isReading' /\ uploadProgress' = 0)
          /\ uploads[u].phase = "failed" =>
                (uploads'[u] = uploads[u] /\ uploads'[u].error # "")]_vars

\* an upload has failed while text typed before it was still in the input box,
\* and the uploader is mounted and not reading
C11_Witness ==
    \E u \in DOMAIN uploads :
        /\ uploads[u].phase = "failed"
        /\ inputText # <<>>
        /\ inputMode = "file" /\ ~isReading
        /\ Len(alerts) = 1

\* every upload started so far is over
AllFinished == \A u \in DOMAIN uploads : uploads[u].phase \in {"done", "failed"}

\* the Document that upload u hands over
DocumentOf(u) ==
    [name |-> parseFileName(uploads[u].file.name).name,
     content |-> uploads[u].file.text,
     extension |-> parseFileName(uploads[u].file.name).extension]

\* C12: once every started extraction has finished, the current file, the
\* input text and the suggested save name and extension are those of the most
\* recently initiated upload (when that upload produced a Document), whatever
\* order the extractions and their delayed callbacks completed in.
C12_NewestUploadWins ==
    (uploads # <<>> /\ AllFinished /\ Last(uploads).phase = "done") =>
        /\ currentFile = DocumentOf(Len(uploads))
        /\ inputText = DocumentOf(Len(uploads)).content
        /\ saveFileName = DocumentOf(Len(uploads)).name \o SuffixTranslated
        /\ saveExtension = DefaultSaveExtension(DocumentOf(Len(uploads)).extension)

(* ------------------------------------------------------------------ *)
(* Export: direction, line structure, round trip, dispatch             *)
(* ------------------------------------------------------------------ *)
\* the calls of downloadFile that delivered an artifact with strategy `kind`
Delivered(kind) ==
    {i \in DOMAIN exports : exports[i].strategy = kind /\ exports[i].outcome = "ok"}

\* the characters of the Arabic/Persian block U+0600..U+06FF used in the model
PersianChars == {"U+0600", "U+0633", "U+06FF"}

HasPersian(text) == \E i \in 1..Len(text) : text[i] \in PersianChars

\* Latin letters and white space only
PurelyLatin(text) ==
    \A i \in 1..Len(text) :
        \/ IsWhitespace(text[i])
        \/ \E k \in 1..26 : text[i] = LowerCase[k] \/ text[i] = UpperCase[k]

\* the paragraph elements of a Word body (the others are blank-line markers)
ParagraphsOf(elements) ==
    {k \in DOMAIN elements : elements[k].text # <<"&nbsp;">>}

\* C13: in a rich-document export, content with at least one character in
\* U+0600..U+06FF gives paragraph elements that all carry direction rtl and
\* right alignment; purely Latin-script content gives paragraph elements
\* that all carry direction ltr and left alignment.
C13_DirectionFromContent ==
    \A i \in Delivered("word") :
        LET elements == exports[i].artifact.elements
        IN  /\ HasPersian(outputText) =>
                  \A k \in ParagraphsOf(elements) :
                      elements[k].dir = "rtl" /\ elements[k].align = "right"
            /\ PurelyLatin(outputText) =>
                  \A k \in ParagraphsOf(elements) :
                      elements[k].dir = "ltr" /\ elements[k].align = "left"

\* a rich document was exported whose Persian character is not in its first line
C13_Witness ==
    \E i \in Delivered("word") :
        /\ outputText = <<"a", "\n", "U+0633">>
        /\ Cardinality(ParagraphsOf(exports[i].artifact.elements)) = 2

\* C14: in a rich-document export, the direction of each paragraph element is
\* rtl exactly when its own line contains a Persian/Arabic character and ltr
\* otherwise, whatever the other lines contain.
C14_DirectionPerLine ==
    \A i \in Delivered("word") :
        LET elements == exports[i].artifact.elements
        IN  \A k \in ParagraphsOf(elements) :
                /\ elements[k].dir = (IF HasPersian(elements[k].text) THEN "rtl" ELSE "ltr")
                /\ elements[k].align = (IF HasPersian(elements[k].text) THEN "right" ELSE "left")

\* the positions of the line breaks of a text
Breaks(text) == {k \in 1..Len(text) : text[k] = "\n"}

\* the position of the i-th line break (0 before the text, Len + 1 after it)
BreakAt(text, i) ==
    IF i = 0 THEN 0
    ELSE IF i > Cardinality(Breaks(text)) THEN Len(text) + 1
    ELSE CHOOSE k \in Breaks(text) : Cardinality({j \in Breaks(text) : j <= k}) = i

\* the i-th physical line of a text
LineOf(text, i) == SubSeq(text, BreakAt(text, i - 1) + 1, BreakAt(text, i) - 1)

\* C15: a rich-document export of content with n physical lines has exactly
\* n elements, in line order: the i-th is a paragraph element holding the
\* i-th line unmodified when that line is not blank, and the blank-line
\* marker when it is.
C15_LineStructureKept ==
    \A i \in Delivered("word") :
        LET elements == exports[i].artifact.elements
        IN  /\ Len(elements) = Cardinality(Breaks(outputText)) + 1
            /\ \A k \in DOMAIN elements :
                  IF IsBlank(LineOf(outputText, k))
                  THEN elements[k].text = <<"&nbsp;">> /\ elements[k].dir = ""
                  ELSE elements[k].tag = "p" /\ elements[k].text = LineOf(outputText, k)

\* a rich document was exported from two lines of text with a blank line between
C15_Witness ==
    \E i \in Delivered("word") :
        /\ outputText = <<"a", "\n", "\n", "U+0633">>
        /\ Len(exports[i].artifact.elements) = 3

\* decoding a payload as UTF-8 text drops the byte-order marker in front
Decode(payload) ==
    IF payload # <<>> /\ payload[1] = "U+FEFF" THEN Tail(payload) ELSE payload

\* C16: the artifact of a plain-text-family export is the byte-order marker
\* followed by the content as it is, so decoding the payload gives the
\* content back verbatim.
C16_PlainRoundTrip ==
    \A i \in Delivered("text") :
        /\ exports[i].artifact.payload = <<"U+FEFF">> \o outputText
        /\ Decode(exports[i].artifact.payload) = outputText
        /\ exports[i].artifact.elements = <<>>

\* content with a blank line was exported to a plain-text-family extension
C16_Witness ==
    \E i \in Delivered("text") :
        /\ outputText = <<"a", "\n", "\n", "a">>
        /\ Len(exports[i].artifact.payload) = 5

\* the extension as requested, without its leading dot and in lower case
Bare(extension) ==
    ToLowerCase(IF StartsWith(extension, ".") THEN Tail(extension) ELSE extension)

\* the fixed MIME table of the plain branch
MimeTable(bare) ==
    CASE bare = <<"j", "s", "o", "n">> -> "application/json"
      [] bare = <<"h", "t", "m", "l">> -> "text/html"
      [] bare = <<"c", "s", "v">> -> "text/csv"
      [] bare = <<"x", "m", "l">> -> "text/xml"
      [] bare = <<"m", "d">> -> "text/markdown"
      [] OTHER -> "text/plain"

\* C17: for every extension string (with or without leading dot, any letter
\* case) downloadFile takes exactly one of the print, rich-document and plain
\* strategies: print for pdf, rich-document for docx and doc, plain for every
\* other extension, with the MIME type of the fixed table and text/plain for
\* an extension the table does not list.
C17_DispatchTotal ==
    \A i \in DOMAIN exports :
        LET bare == Bare(saveExtension)
            rich == {<<"d", "o", "c", "x">>, <<"d", "o", "c">>}
        IN  /\ exports[i].strategy \in {"print", "word", "text"}
            /\ exports[i].strategy = "print" <=> bare = <<"p", "d", "f">>
            /\ exports[i].strategy = "word" <=> bare \in rich
            /\ exports[i].strategy = "text" <=> (bare # <<"p", "d", "f">> /\ bare \notin rich)
            /\ (exports[i].strategy = "text" /\ exports[i].outcome = "ok") =>
                  /\ exports[i].artifact.type = MimeTable(bare)
                  /\ exports[i].artifact.payload # <<>>
            /\ (exports[i].strategy # "text" /\ exports[i].outcome = "ok") =>
                  exports[i].artifact.elements # <<>>

\* an upper-case extension without dot went to the print strategy
C17_Witness ==
    \E i \in DOMAIN exports :
        /\ saveExtension = <<"P", "D", "F">>
        /\ exports[i].strategy = "print" /\ exports[i].outcome = "ok"

(* ------------------------------------------------------------------ *)
(* File names and default export extension                             *)
(* ------------------------------------------------------------------ *)
\* the uploads whose file has been handed to handleFileLoaded
Loaded == {u \in DOMAIN uploads : uploads[u].phase = "done"}

HasDot(name) == \E i \in 1..Len(name) : name[i] = "."

\* C18: the file handed over has, for a name containing a '.', as base name
\* everything before the last '.' and as extension the rest from that '.' on
\* (so base and extension make up the name and the extension holds no other
\* '.'); for a name without '.', the whole name as base and '.txt' as extension.
C18_FileNameParsed ==
    \A u \in Loaded :
        LET fileName == uploads[u].file.name
        IN  IF HasDot(fileName)
            THEN /\ currentFile.name \o currentFile.extension = fileName
                 /\ Head(currentFile.extension) = "."
                 /\ ~HasDot(Tail(currentFile.extension))
            ELSE /\ currentFile.name = fileName
                 /\ currentFile.extension = <<".", "t", "x", "t">>

\* a file whose name has two dots was loaded
C18_Witness ==
    \E u \in Loaded :
        /\ uploads[u].file.name = <<"d", ".", "v", "2", ".", "J", "S", "O", "N">>
        /\ currentFile.name = <<"d", ".", "v", "2">>
        /\ currentFile.extension = <<".", "J", "S", "O", "N">>

\* C19 as stated: after a file is loaded the default export extension equals
\* the file's extension if and only if that extension is in
\* EXPORT_EXTENSIONS, and is '.txt' otherwise.
C19_DefaultIsInputExtension ==
    \A u \in Loaded :
        /\ saveExtension = currentFile.extension <=>
               Includes(EXPORT_EXTENSIONS, currentFile.extension)
        /\ ~Includes(EXPORT_EXTENSIONS, currentFile.extension) =>
               saveExtension = <<".", "t", "x", "t">>

\* C19 amended: after a file is loaded the default export extension equals
\* the file's extension in lower case if and only if that lower-case
\* extension is in EXPORT_EXTENSIONS, and is '.txt' otherwise.
C19_DefaultIsLowerCasedExtension ==
    \A u \in Loaded :
        /\ saveExtension = ToLowerCase(currentFile.extension) <=>
               Includes(EXPORT_EXTENSIONS, ToLowerCase(currentFile.extension))
        /\ ~Includes(EXPORT_EXTENSIONS, ToLowerCase(currentFile.extension)) =>
               saveExtension = <<".", "t", "x", "t">>

\* a file with an upper-case extension was loaded and '.json' is suggested
C19_Witness ==
    \E u \in Loaded :
        /\ currentFile.extension = <<".", "J", "S", "O", "N">>
        /\ saveExtension = <<".", "j", "s", "o", "n">>

\* the ingestion formats read as plain text
PlainIngestion ==
    {SUPPORTED_EXTENSIONS[i] : i \in DOMAIN SUPPORTED_EXTENSIONS} \ {<<".", "p", "d", "f">>}

\* the source-code formats of the ingestion list
ScriptFormats ==
    {<<".", "j", "s">>, <<".", "t", "s">>, <<".", "t", "s", "x">>,
     <<".", "j", "s", "x">>, <<".", "c", "s", "s">>}

\* C20 as stated: every extension of SUPPORTED_EXTENSIONS is an export
\* extension, and the only export extensions outside the plain ingestion
\* formats are the rich-document and print-paginated ones.  So a loaded file
\* of any supported format gets its own extension as default export extension.
C20_ExportIsIngestionPlusTwo ==
    /\ \A i \in DOMAIN SUPPORTED_EXTENSIONS :
           Includes(EXPORT_EXTENSIONS, SUPPORTED_EXTENSIONS[i])
    /\ \A j \in DOMAIN EXPORT_EXTENSIONS :
           EXPORT_EXTENSIONS[j] \notin PlainIngestion =>
               EXPORT_EXTENSIONS[j] \in {<<".", "d", "o", "c", "x">>, <<".", "p", "d", "f">>}
    /\ \A u \in Loaded :
           IsSupported(uploads[u].file) =>
               saveExtension = ToLowerCase(currentFile.extension)

\* C20 amended: every extension of SUPPORTED_EXTENSIONS other than the
\* source-code formats (.js, .ts, .tsx, .jsx, .css) is an export extension
\* and none of those five is; the only export extensions outside the plain
\* ingestion formats are the rich-document and print-paginated ones.  So a
\* loaded file of a source-code format gets '.txt' as default export extension.
C20_ExportIsIngestionWithoutScriptsPlusTwo ==
    /\ \A i \in DOMAIN SUPPORTED_EXTENSIONS :
           Includes(EXPORT_EXTENSIONS, SUPPORTED_EXTENSIONS[i]) <=>
               SUPPORTED_EXTENSIONS[i] \notin ScriptFormats
    /\ \A j \in DOMAIN EXPORT_EXTENSIONS :
           EXPORT_EXTENSIONS[j] \notin PlainIngestion =>
               EXPORT_EXTENSIONS[j] \in {<<".", "d", "o", "c", "x">>, <<".", "p", "d", "f">>}
    /\ \A u \in Loaded :
           ToLowerCase(currentFile.extension) \in ScriptFormats =>
               saveExtension = <<".", "t", "x", "t">>

\* a file of a supported source-code format was loaded and '.txt' is suggested
C20_Witness ==
    \E u \in Loaded :
        /\ currentFile.extension = <<".", "t", "s">>
        /\ IsSupported(uploads[u].file)
        /\ saveExtension = <<".", "t", "x", "t">>

(* ------------------------------------------------------------------ *)
(* Download: failure and staging                                       *)
(* ------------------------------------------------------------------ *)
\* the step in which downloadFile is called and the host refuses the export
ExportRefused ==
    /\ Len(exports') = Len(exports) + 1
    /\ Last(exports').outcome \in {"blocked", "throws"}

\* C21: when the host refuses an export (print window blocked, or a download
\* primitive throws) that step leaves the output text and the session status
\* unchanged and raises exactly one alert; and whenever the save state is
\* 'preparing' it eventually returns to 'idle', which enables the download
\* button again.
C21_FailedExportCanBeRetried ==
    /\ [][ExportRefused =>
            /\ outputText' = outputText
            /\ status' = status
            /\ Len(alerts') = Len(alerts) + 1]_vars
    /\ (saveStatus = "preparing") ~> (saveStatus = "idle")

\* an export was refused and the same text was then exported successfully
C21_Witness ==
    /\ Len(exports) = 2
    /\ exports[1].outcome = "blocked"
    /\ exports[2].outcome = "ok"
    /\ exports[2].content = exports[1].content
    /\ Len(alerts) = 1
    /\ saveStatus = "idle"

(* ------------------------------------------------------------------ *)
(* Session status                                                      *)
(* ------------------------------------------------------------------ *)
\* the step in which some open stream completes or fails
StreamSettles ==
    \E s \in DOMAIN streams :
        streams[s].state = "open" /\ streams'[s].state \in {"done", "failed"}

\* C22: when every provider stream eventually completes or fails, a session
\* in status 'translating' eventually reaches 'success' or 'error'; and the
\* status leaves 'translating' only in a step in which a stream completes or
\* fails, so with a stream that never ends the session stays 'translating'.
C22_SessionTerminates ==
    /\ (status = "translating") ~> (status \in {"success", "error"})
    /\ [][(status = "translating" /\ status' # "translating") => StreamSettles]_vars

(* ------------------------------------------------------------------ *)
(* The two markup exports side by side                                 *)
(* ------------------------------------------------------------------ *)
\* what an element of either markup stands for
Kind(element) ==
    IF element.tag = "br" \/ element = WordBlank THEN "break" ELSE "paragraph"

\* the direction the elements of a body show: the one of its paragraphs
\* (Word), or of the page when the paragraphs carry none (print)
ShownDir(artifact) ==
    LET own == {artifact.elements[k].dir : k \in DOMAIN artifact.elements} \ {""}
    IN  IF own = {} THEN {artifact.dir} ELSE own

\* the markup the other strategy builds from the same content
Counterpart(export) ==
    Artifact(export.content, export.filename,
             IF export.strategy = "print" THEN ExtDocx ELSE ExtPdf)

\* C23: the print export and the rich-document export of one content agree:
\* both show direction rtl exactly when some character is in U+0600..U+06FF,
\* both give as many elements as the content has lines, and the k-th element
\* of both is a paragraph when the k-th line is non-blank after trimming and
\* a break marker when it is blank.
C23_ExportsAgreeOnLayout ==
    \A i \in Delivered("print") \cup Delivered("word") :
        LET mine == exports[i].artifact
            other == Counterpart(exports[i])
            dir == IF HasPersian(exports[i].content) THEN "rtl" ELSE "ltr"
        IN  /\ ShownDir(mine) \subseteq {dir}
            /\ ShownDir(other) \subseteq {dir}
            /\ mine.dir = other.dir
            /\ Len(mine.elements) = Len(other.elements)
            /\ Len(mine.elements) = Cardinality(Breaks(exports[i].content)) + 1
            /\ \A k \in DOMAIN mine.elements :
                   /\ Kind(mine.elements[k]) = Kind(other.elements[k])
                   /\ Kind(mine.elements[k]) = "paragraph" =>
                          mine.elements[k].text = other.elements[k].text

\* a Persian text with a line of white space only, exported for print:
\* paragraph, break marker, paragraph
C23_Witness ==
    \E i \in Delivered("print") :
        /\ exports[i].content = <<"U+0633", "\n", " ", "\n">>
        /\ exports[i].artifact.dir = "rtl"
        /\ Len(exports[i].artifact.elements) = 3
        /\ Kind(exports[i].artifact.elements[2]) = "break"

(* ------------------------------------------------------------------ *)
(* One stream at a time; status against progress                       *)
(* ------------------------------------------------------------------ *)
\* the streams that have neither completed nor failed
OpenStreams == {s \in DOMAIN streams : streams[s].state = "open"}

C25_StatusMatchesProgress ==
    /\ status = "success" => PctEq(progress, Pct(100))
    /\ status = "translating" => PctLeq(progress, Pct(95))

\* C26: a step in which a stream sets 'success' or 'error', or which changes
\* the status to one of them, starts with status 'translating'; a step that
\* changes the status to 'translating' is a translate action on non-blank
\* input.
C26_TerminalOnlyFromTranslating ==
    [][ /\ (status' \in {"success", "error"} /\ (status' # status \/ StreamSettles)) =>
              status = "translating"
        /\ (status' = "translating" /\ status # "translating") =>
              /\ translateCalls' = translateCalls + 1
              /\ Len(streams') = Len(streams) + 1
              /\ ~IsBlank(inputText)
      ]_vars

(* ------------------------------------------------------------------ *)
(* The staged download                                                 *)
(* ------------------------------------------------------------------ *)
\* the changes of saveProgress one download makes, in order
SaveMilestones == {<<0, 20>>, <<20, 50>>, <<50, 80>>, <<80, 100>>, <<100, 0>>}

\* the step calls the exporter
Exports == exports' # exports

\* C27: a download starts only from save state 'idle' with non-empty output
\* and sets 'preparing' with save progress 0; save progress then moves
\* 0, 20, 50, 80, 100 in that order; the exporter is called once, in the step
\* that reaches 100 and in no other; 'preparing' ends only in the step that
\* takes save progress from 100 back to 0 with save state 'idle'; while the
\* save state is 'preparing' no download starts, and with empty output and no
\* download pending nothing of the download changes.
C27_StagedDownload ==
    [][ /\ saveProgress' # saveProgress => <<saveProgress, saveProgress'>> \in SaveMilestones
        /\ (saveStatus = "idle" /\ saveStatus' = "preparing") =>
              /\ outputText # <<>>
              /\ saveProgress' = 0
              /\ dl'.content = outputText
        /\ saveStatus = "preparing" =>
              /\ dl'.step # dl.step => dl'.step = (dl.step + 1) % (Len(SavePct) + 2)
              /\ dl'.step # 0 => dl'.content = dl.content
              /\ saveStatus' = "preparing" \/
                    (saveStatus' = "idle" /\ saveProgress = 100 /\ saveProgress' = 0)
        /\ Exports <=> (saveProgress = 80 /\ saveProgress' = 100)
        /\ Exports => Len(exports') = Len(exports) + 1 /\ Last(exports').content = dl.content
        /\ saveStatus = "idle" => saveProgress = 0 /\ dl.step = 0
        /\ (saveStatus = "idle" /\ outputText = <<>>) => UNCHANGED downloadVars
      ]_vars

\* one download has run through all its steps and a second one is under way
C27_Witness ==
    /\ Len(exports) = 1
    /\ saveStatus = "preparing"
    /\ saveProgress = 50
    /\ dl.step = 3

(* ------------------------------------------------------------------ *)
(* The language pair                                                   *)
(* ------------------------------------------------------------------ *)
\* C28: the target language is never 'Auto Detect', whatever is chosen in the
\* two selects and however often the languages are swapped; a step that
\* starts with source 'Auto Detect' and changes both languages puts the old
\* target into the source and English into the target.
C28_TargetIsExplicit ==
    /\ [](targetLang \in Language /\ targetLang # "Auto Detect")
    /\ [][(sourceLang = "Auto Detect" /\ sourceLang' # sourceLang
            /\ targetLang' # targetLang) =>
              (sourceLang' = targetLang /\ targetLang' = "English")]_vars

\* the pair that swapping the initial pair ('Auto Detect', Persian) gives,
\* with a translate action run
C28_Witness ==
    /\ sourceLang = "Persian (Farsi)"
    /\ targetLang = "English"
    /\ translateCalls = 1

====
